---- MODULE Spec2Model ----
(***************************************************************************)
(* Model of run_automation.py: the daily pipeline                          *)
(*   main -> (get_google_finance_news | get_nasdaq_data)                   *)
(*        -> generate_blog_content -> post_to_wordpress.                   *)
(*                                                                         *)
(* Python values are tagged records (None, str, bool, dict).  A str is a   *)
(* sequence of tokens; a token is an indivisible fragment of text ("\n",   *)
(* " ", ":", a word).  No word token contains a newline, a blank or a      *)
(* colon, so split, strip and startswith work on tokens exactly as they    *)
(* work on the characters of the text the tokens spell.  The fixed         *)
(* messages of the program, which are never parsed, are one token each.    *)
(* The Korean markers of lines 144 and 146 are spelled "Jemok" and         *)
(* "Naeyong".                                                              *)
(***************************************************************************)
EXTENDS Integers, Sequences, FiniteSets, TLC

VARIABLES
    pc,               \* position of main / of the parser harness
    WP_URL, WP_USERNAME, WP_APP_PASSWORD, GEMINI_API_KEY,   \* module globals
    weekday,          \* main: datetime.now().weekday(), Monday = 0
    mode,             \* main: "NEWS" | "MARKET"
    data, topic,      \* main: locals
    title, content,   \* main: the pair returned by generate_blog_content
    hist,             \* get_nasdaq_data: what nasdaq.history returned
    text,             \* generate_blog_content: response.text
    response,         \* post_to_wordpress: the local `response`
    posted,           \* outcome of the post_to_wordpress call
    exc,              \* the exception that escaped main, or None
    calls,            \* log of the functions main has invoked
    net               \* log of the external requests issued

vars == <<pc, WP_URL, WP_USERNAME, WP_APP_PASSWORD, GEMINI_API_KEY, weekday,
          mode, data, topic, title, content, hist, text, response, posted,
          exc, calls, net>>

-----------------------------------------------------------------------------
(* Bounds of the model                                                     *)

MaxLines == 3          \* lines of a model response in the parser harness
MaxArticles == 6       \* containers matched by the first selector
MaxMixedArticles == 2  \* containers of a page that mixes every link form
MaxFallback == 1       \* containers matched by the second selector
MaxBars == 3           \* daily bars returned by the time-series query

-----------------------------------------------------------------------------
(* Python values                                                           *)

None == [kind |-> "None"]
Str(s) == [kind |-> "str", val |-> s]
Bool(b) == [kind |-> "bool", val |-> b]

\* Python truth value: None, "" and False are falsy; a dict with keys is truthy
Truthy(v) ==
    CASE v.kind = "None" -> FALSE
      [] v.kind = "str"  -> v.val # <<>>
      [] v.kind = "bool" -> v.val
      [] v.kind = "dict" -> TRUE

Return(v) == [tag |-> "return", val |-> v]
Raise(e) == [tag |-> "raise", exc |-> e]

-----------------------------------------------------------------------------
(* str methods, on token sequences                                         *)

\* sep.join(parts)
RECURSIVE Join(_, _)
Join(parts, sep) ==
    IF parts = <<>> THEN <<>>
    ELSE IF Len(parts) = 1 THEN parts[1]
    ELSE parts[1] \o <<sep>> \o Join(Tail(parts), sep)

\* index of the first token equal to t, 0 when there is none
RECURSIVE IndexOf(_, _, _)
IndexOf(s, t, i) ==
    IF i > Len(s) THEN 0
    ELSE IF s[i] = t THEN i
    ELSE IndexOf(s, t, i + 1)

\* s.split(sep): always at least one part
RECURSIVE Split(_, _)
Split(s, sep) ==
    LET k == IndexOf(s, sep, 1) IN
    IF k = 0 THEN <<s>>
    ELSE <<SubSeq(s, 1, k - 1)>> \o Split(SubSeq(s, k + 1, Len(s)), sep)

\* s.split(sep, 1): splits at the first sep only
Split1(s, sep) ==
    LET k == IndexOf(s, sep, 1) IN
    IF k = 0 THEN <<s>>
    ELSE <<SubSeq(s, 1, k - 1), SubSeq(s, k + 1, Len(s))>>

IsSpace(t) == t \in {" ", "\n"}

RECURSIVE LStrip(_)
LStrip(s) == IF s # <<>> /\ IsSpace(Head(s)) THEN LStrip(Tail(s)) ELSE s

RECURSIVE RStrip(_)
RStrip(s) ==
    IF s # <<>> /\ IsSpace(s[Len(s)]) THEN RStrip(SubSeq(s, 1, Len(s) - 1))
    ELSE s

\* s.strip()
Strip(s) == RStrip(LStrip(s))

\* s.startswith(p)
StartsWith(s, p) == Len(s) >= Len(p) /\ SubSeq(s, 1, Len(p)) = p

-----------------------------------------------------------------------------
(* generate_blog_content: parsing of the model response (lines 138-150)    *)

TitleMarkers == {<<"Title", ":">>, <<"Jemok", ":">>}
ContentMarkers == {<<"Content", ":">>, <<"Naeyong", ":">>}

\* the marker looked for anywhere in the line, not at its start
IsTitleLine_anywhere(line) ==
    \E m \in TitleMarkers : \E i \in 1..Len(line) : StartsWith(SubSeq(line, i, Len(line)), m)

IsTitleLine(line) == \E m \in TitleMarkers : StartsWith(Strip(line), m)
IsContentLine(line) == \E m \in ContentMarkers : StartsWith(Strip(line), m)

\* the for loop of lines 143-148, from line index i with the title found so far
RECURSIVE ParseLoop(_, _, _, _)
ParseLoop(lines, i, ttl, cnt) ==
    IF i > Len(lines) THEN <<ttl, cnt>>
    ELSE IF IsTitleLine(lines[i])
         THEN ParseLoop(lines, i + 1, Strip(Split1(lines[i], ":")[2]), cnt)
    ELSE IF IsContentLine(lines[i])
         THEN <<ttl, Join(SubSeq(lines, i + 1, Len(lines)), "\n")>>
    ELSE ParseLoop(lines, i + 1, ttl, cnt)

\* lines 139-150: the (title, content) pair parsed from response.text
ParseResponse(t) == ParseLoop(Split(t, "\n"), 1, <<"Market Update">>, t)

-----------------------------------------------------------------------------
(* get_nasdaq_data (lines 23-50)                                           *)
(* Prices are integers in thousandths; round(x, 2) yields hundredths.      *)

\* nearest integer to a / b (b > 0), ties to even, as Python's round
RoundDiv(a, b) ==
    LET q == (2 * a + b) \div (2 * b) IN
    IF (2 * a + b) % (2 * b) = 0 /\ q % 2 = 1 THEN q - 1 ELSE q

\* round(x, 2) of a price in thousandths, in hundredths
Round2(x) == RoundDiv(x, 10)

\* lines 34-49: the snapshot derived from a non-empty series of bars
Snapshot(bars) ==
    LET n == Len(bars)
        last_day == bars[n]
        prev_day == IF n > 1 THEN bars[n - 1] ELSE last_day
        change == last_day.Close - prev_day.Close
    IN  [kind |-> "dict",
         date |-> last_day.date,
         close |-> Round2(last_day.Close),
         open |-> Round2(last_day.Open),
         high |-> Round2(last_day.High),
         low |-> Round2(last_day.Low),
         volume |-> last_day.Volume,
         change |-> Round2(change),
         change_percent |-> RoundDiv(change * 10000, prev_day.Close)]

\* without the test of line 30, hist.iloc[-1] raises on an empty series
get_nasdaq_data_unchecked(h) ==
    IF h.tag = "raise" THEN h
    ELSE IF h.val = <<>> THEN Raise("IndexError")
    ELSE Return(Snapshot(h.val))

\* h: the outcome of nasdaq.history(period="5d"), Return(bars) or Raise(e).
\* There is no try around the query: its exception is the function's.
get_nasdaq_data(h) ==
    IF h.tag = "raise" THEN h
    ELSE IF h.val = <<>> THEN Return(None)
    ELSE Return(Snapshot(h.val))

-----------------------------------------------------------------------------
(* get_google_finance_news (lines 52-101)                                  *)

NewsErrorText == Str(<<"Error fetching news.">>)
NewsOverviewText ==
    Str(<<"Could not scrape specific headlines. Please generate a general market overview based on recent global financial events.">>)

\* lines 84-88: the link of one article
ArticleLink(article) ==
    LET link == IF article.anchor = "none" THEN <<"#">> ELSE article.href IN
    IF StartsWith(link, <<".", "/">>)
    THEN <<"https://www.google.com/finance">> \o Tail(link)
    ELSE IF StartsWith(link, <<"/">>)
    THEN <<"https://www.google.com">> \o link
    ELSE link

\* line 90: f"- {title} ({link})"
NewsItem(article) ==
    <<"-", " ">> \o article.title \o <<" ", "(">> \o ArticleLink(article) \o <<")">>

\* link_el['href'] of line 84 raises KeyError when the anchor has no href
ArticleRaises(article) == article.has_title /\ article.anchor = "nohref"

\* every container instead of the first five
Top5_uncapped(articles) == articles

\* articles[:5]
Top5(articles) == SubSeq(articles, 1, IF Len(articles) < 5 THEN Len(articles) ELSE 5)

\* lines 79-90: the news_items collected from the containers
RECURSIVE NewsItems(_)
NewsItems(articles) ==
    IF articles = <<>> THEN <<>>
    ELSE (IF Head(articles).has_title THEN <<NewsItem(Head(articles))>> ELSE <<>>)
         \o NewsItems(Tail(articles))

\* lines 75-77: the first selector that matches wins
SelectArticles(page) ==
    IF page.primary # <<>> THEN page.primary ELSE page.fallback

\* g: the outcome of requests.get, Return(page) or Raise(e).
\* Everything from the request on is inside try/except Exception.
get_google_finance_news(g) ==
    IF g.tag = "raise" THEN NewsErrorText
    ELSE IF g.val.status >= 400 THEN NewsErrorText
    ELSE LET articles == Top5(SelectArticles(g.val)) IN
         IF \E i \in 1..Len(articles) : ArticleRaises(articles[i])
         THEN NewsErrorText
         ELSE IF NewsItems(articles) = <<>> THEN NewsOverviewText
         ELSE Str(Join(NewsItems(articles), "\n"))

-----------------------------------------------------------------------------
(* generate_blog_content (lines 103-153)                                   *)

\* key: GEMINI_API_KEY; m: the outcome of model.generate_content(prompt)
\* and response.text, Return(text) or Raise(e).  The result is the pair
\* (title, content), the model request made (if any) and response.text.
generate_blog_content(key, tpc, dat, m) ==
    IF ~Truthy(key)
    THEN [pair |-> <<Str(<<"Error: Gemini API Key not found.">>), Str(<<"Error">>)>>,
          net |-> <<>>, text |-> None]
    ELSE LET req == [op |-> "generate_content", model |-> "gemini-flash-latest",
                     topic |-> tpc, context |-> dat] IN
         IF m.tag = "raise"
         THEN [pair |-> <<None, None>>, net |-> <<req>>, text |-> None]
         ELSE [pair |-> <<Str(ParseResponse(m.val)[1]), Str(ParseResponse(m.val)[2])>>,
               net |-> <<req>>, text |-> Str(m.val)]

-----------------------------------------------------------------------------
(* post_to_wordpress (lines 155-186)                                       *)

Unbound == [kind |-> "unbound"]

\* f"{v}" of lines 163 and 177: None is spelled "None"
Format(v) == IF v.kind = "None" THEN <<"None">> ELSE v.val

\* bool(response) of line 184: a requests.Response is truthy when it is ok
ResponseOk(r) == r.status < 400

\* the password left out of the test
CredentialsMissing_no_password(url, user, pw) == ~Truthy(url) \/ ~Truthy(user)

\* line 159
CredentialsMissing(url, user, pw) == ~Truthy(url) \/ ~Truthy(user) \/ ~Truthy(pw)

\* h: the outcome of requests.post, Return(response) or Raise(e).
\* The result is what the call does (return or raise), the request sent
\* (if any) and the local `response` when the call ends.
post_to_wordpress(url, user, pw, ttl, cnt, h) ==
    IF CredentialsMissing(url, user, pw)
    THEN [res |-> Return(Bool(FALSE)), net |-> <<>>, response |-> Unbound]
    ELSE LET req == [op |-> "POST",
                     url |-> Format(url) \o <<"/wp-json/wp/v2/posts">>,
                     auth |-> [scheme |-> "Basic",
                               b64 |-> Format(user) \o <<":">> \o Format(pw)],
                     json |-> [title |-> ttl, content |-> cnt, status |-> "publish"]]
         IN
         IF h.tag = "raise"
         THEN \* line 184 reads `response`, which line 178 never assigned
              [res |-> Raise("UnboundLocalError"), net |-> <<req>>, response |-> Unbound]
         ELSE IF ~ResponseOk(h.val)
         THEN \* raise_for_status raised; bool(response) is False at line 184
              [res |-> Return(Bool(FALSE)), net |-> <<req>>, response |-> h.val]
         ELSE IF ~h.val.json_ok
         THEN \* response.json().get raised at line 180
              [res |-> Return(Bool(FALSE)), net |-> <<req>>, response |-> h.val]
         ELSE [res |-> Return(Bool(TRUE)), net |-> <<req>>, response |-> h.val]

-----------------------------------------------------------------------------
(* Inputs: what the environment can hand to the program                    *)

\* a configuration variable is unset, empty or set (os.getenv, lines 14-17)
EnvValues(v) == {None, Str(<<>>), Str(<<v>>)}

\* all sequences over S of length at most n
RECURSIVE SeqsUpTo(_, _)
SeqsUpTo(S, n) ==
    IF n = 0 THEN {<<>>}
    ELSE LET shorter == SeqsUpTo(S, n - 1) IN
         shorter \cup {Append(q, x) : q \in {r \in shorter : Len(r) = n - 1}, x \in S}

\* daily bars, prices in thousandths
Bars ==
    {[date |-> "2024-01-02", Close |-> 10125, Open |-> 10050,
      High |-> 10155, Low |-> 9904, Volume |-> 4000],
     [date |-> "2024-01-03", Close |-> 10375, Open |-> 10125,
      High |-> 10400, Low |-> 10095, Volume |-> 5000]}

HistoryOutcomes == {Raise("history failed")} \cup {Return(b) : b \in SeqsUpTo(Bars, MaxBars)}

\* news-item containers: no headline element; headline without an anchor;
\* anchor without href; the three link forms; an empty headline
NoTitle == [has_title |-> FALSE, title |-> <<>>, anchor |-> "none", href |-> <<>>]
Headline(t, a, h) == [has_title |-> TRUE, title |-> t, anchor |-> a, href |-> h]
CoreArticles ==
    {NoTitle,
     Headline(<<"Fed", " ", "holds">>, "href", <<"https://news.example/a">>),
     Headline(<<"Fed", " ", "holds">>, "nohref", <<>>)}
MixedArticles ==
    CoreArticles \cup
    {Headline(<<"Fed", " ", "holds">>, "none", <<>>),
     Headline(<<"Fed", " ", "holds">>, "href", <<".", "/", "quote">>),
     Headline(<<"Fed", " ", "holds">>, "href", <<"/", "finance", "/", "quote">>),
     Headline(<<>>, "href", <<"https://news.example/a">>)}

Pages ==
    {[status |-> st, primary |-> p, fallback |-> f] :
        st \in {200, 503},
        p \in SeqsUpTo(CoreArticles, MaxArticles) \cup SeqsUpTo(MixedArticles, MaxMixedArticles),
        f \in SeqsUpTo(CoreArticles, MaxFallback)}

NewsOutcomes == {Raise("ConnectionError")} \cup {Return(p) : p \in Pages}

\* lines a model response is made of
Lines ==
    {<<>>,
     <<"Title", ":", " ", "Foo">>,
     <<" ", "Title", ":", "Foo", " ">>,
     <<"Title", ":">>,
     <<"Title", ":", " ", "Foo", ":", "Bar">>,
     <<"Jemok", ":", " ", "Foo">>,
     <<"Content", ":", " ", "Bar">>,
     <<" ", "Content", ":">>,
     <<"Naeyong", ":", " ", "Bar">>,
     <<"Baz">>,
     <<"Title", " ", "Foo">>,
     <<"Foo", ":", " ", "Title", ":">>,
     <<"<p>", "Content", "</p>">>}

\* the responses of the parser harness: up to MaxLines lines
Responses == {Join(ls, "\n") : ls \in SeqsUpTo(Lines, MaxLines) \ {<<>>}}

\* the responses a run of main draws from
MainResponses ==
    {<<>>,
     <<"Title", ":", " ", "Foo", "\n", "Content", ":", " ", "Bar", "\n", "Baz">>,
     <<"Title", ":", "\n", "Content", ":", "\n", "Baz">>,
     <<"Title", ":", " ", "Foo", "\n", "Content", ":", " ", "Bar">>,
     <<"Baz", "\n", "Bar">>}

ModelOutcomes(R) == {Raise("generation failed")} \cup {Return(r) : r \in R}

\* the responses of the CMS to the create-post request
HttpResponses ==
    {[status |-> 201, json_ok |-> TRUE], [status |-> 201, json_ok |-> FALSE],
     [status |-> 401, json_ok |-> TRUE], [status |-> 500, json_ok |-> FALSE]}

PostOutcomes == {Raise("ConnectionError")} \cup {Return(r) : r \in HttpResponses}

-----------------------------------------------------------------------------
(* main (lines 188-235)                                                    *)

NotCalled == [tag |-> "not called"]

\* module load, lines 11-21: the configuration is read once
Init ==
    /\ pc = "start"
    /\ WP_URL \in EnvValues("https://blog.example")
    /\ WP_USERNAME \in EnvValues("admin")
    /\ WP_APP_PASSWORD \in EnvValues("secret")
    /\ GEMINI_API_KEY \in EnvValues("key")
    /\ weekday = None
    /\ mode = None
    /\ data = None
    /\ topic = None
    /\ title = None
    /\ content = None
    /\ hist = NotCalled
    /\ text = None
    /\ response = Unbound
    /\ posted = NotCalled
    /\ exc = None
    /\ calls = <<>>
    /\ net = <<>>

config == <<WP_URL, WP_USERNAME, WP_APP_PASSWORD, GEMINI_API_KEY>>

\* the weekday numbers of isoweekday() % 7 (Sunday = 0) taken for weekday()'s
ModeOf_sunday_zero(wd) == IF wd \in {0, 1} THEN "NEWS" ELSE "MARKET"

\* lines 198-207: the branch on the weekday
ModeOf(wd) == IF wd \in {6, 0} THEN "NEWS" ELSE "MARKET"

\* lines 193-207: read the weekday and select the mode
main_select_mode ==
    /\ pc = "start"
    /\ \E wd \in 0..6 :
          /\ weekday' = wd
          /\ mode' = ModeOf(wd)
          /\ pc' = IF ModeOf(wd) = "NEWS" THEN "news" ELSE "market"
    /\ UNCHANGED <<config, data, topic, title, content, hist, text, response,
                   posted, exc, calls, net>>

\* lines 202-203: NEWS mode
main_news ==
    /\ pc = "news"
    /\ \E g \in NewsOutcomes :
          /\ data' = get_google_finance_news(g)
          /\ net' = Append(net, [op |-> "GET", url |-> "https://www.google.com/finance"])
    /\ calls' = Append(calls, "get_google_finance_news")
    /\ topic' = Str(<<"Global Financial Market News & Updates">>)
    /\ pc' = "check_data"
    /\ UNCHANGED <<config, weekday, mode, title, content, hist, text, response,
                   posted, exc>>

\* lines 211-218: the context block built from the snapshot
DataContext(d) ==
    Str(<<"Date: ", d.date, "Close: ", ToString(d.close), "Open: ", ToString(d.open),
          "High: ", ToString(d.high), "Low: ", ToString(d.low),
          "Change: ", ToString(d.change), "(", ToString(d.change_percent), "%)">>)

\* lines 208-222: MARKET mode
main_market ==
    /\ pc = "market"
    /\ \E h \in HistoryOutcomes :
          LET r == get_nasdaq_data(h) IN
          /\ hist' = h
          /\ IF r.tag = "raise"
             THEN /\ exc' = Str(<<r.exc>>)
                  /\ pc' = "raised"
                  /\ UNCHANGED <<data, topic>>
             ELSE IF Truthy(r.val)
             THEN /\ topic' = Str(<<"Nasdaq Market Review (", r.val.date, ")">>)
                  /\ data' = DataContext(r.val)
                  /\ pc' = "check_data"
                  /\ exc' = exc
             ELSE /\ data' = r.val
                  /\ pc' = "done"
                  /\ UNCHANGED <<topic, exc>>
    /\ calls' = Append(calls, "get_nasdaq_data")
    /\ net' = Append(net, [op |-> "history", symbol |-> "^IXIC", period |-> "5d"])
    /\ UNCHANGED <<config, weekday, mode, title, content, text, response, posted>>

\* lines 224-226
main_check_data ==
    /\ pc = "check_data"
    /\ pc' = IF ~Truthy(data) THEN "done" ELSE "generate"
    /\ UNCHANGED <<config, weekday, mode, data, topic, title, content, hist, text,
                   response, posted, exc, calls, net>>

\* line 229
main_generate(R) ==
    /\ pc = "generate"
    /\ \E m \in ModelOutcomes(R) :
          LET r == generate_blog_content(GEMINI_API_KEY, topic, data, m) IN
          /\ title' = r.pair[1]
          /\ content' = r.pair[2]
          /\ text' = r.text
          /\ net' = net \o r.net
    /\ calls' = Append(calls, "generate_blog_content")
    /\ pc' = "publish"
    /\ UNCHANGED <<config, weekday, mode, data, topic, hist, response, posted, exc>>

\* a failed generation sent back to the generator
main_publish_retry ==
    /\ pc = "publish"
    /\ IF Truthy(title) /\ Truthy(content)
       THEN /\ \E h \in PostOutcomes :
                  LET r == post_to_wordpress(WP_URL, WP_USERNAME, WP_APP_PASSWORD,
                                             title, content, h) IN
                  /\ posted' = r.res
                  /\ response' = r.response
                  /\ net' = net \o r.net
                  /\ exc' = IF r.res.tag = "raise" THEN Str(<<r.res.exc>>) ELSE exc
                  /\ pc' = IF r.res.tag = "raise" THEN "raised" ELSE "done"
            /\ calls' = Append(calls, "post_to_wordpress")
       ELSE /\ pc' = "generate"
            /\ UNCHANGED <<posted, response, net, exc, calls>>
    /\ UNCHANGED <<config, weekday, mode, data, topic, title, content, hist, text>>

\* lines 231-235
main_publish ==
    /\ pc = "publish"
    /\ IF Truthy(title) /\ Truthy(content)
       THEN /\ \E h \in PostOutcomes :
                  LET r == post_to_wordpress(WP_URL, WP_USERNAME, WP_APP_PASSWORD,
                                             title, content, h) IN
                  /\ posted' = r.res
                  /\ response' = r.response
                  /\ net' = net \o r.net
                  /\ exc' = IF r.res.tag = "raise" THEN Str(<<r.res.exc>>) ELSE exc
                  /\ pc' = IF r.res.tag = "raise" THEN "raised" ELSE "done"
            /\ calls' = Append(calls, "post_to_wordpress")
       ELSE /\ pc' = "done"
            /\ UNCHANGED <<posted, response, net, exc, calls>>
    /\ UNCHANGED <<config, weekday, mode, data, topic, title, content, hist, text>>

Next ==
    \/ main_select_mode
    \/ main_news
    \/ main_market
    \/ main_check_data
    \/ main_generate(MainResponses)
    \/ main_publish

Spec == Init /\ [][Next]_vars

-----------------------------------------------------------------------------
(* The parser alone, over every response of up to MaxLines lines           *)

InitParse ==
    /\ pc = "parse"
    /\ text \in {Str(r) : r \in Responses}
    /\ WP_URL = None /\ WP_USERNAME = None /\ WP_APP_PASSWORD = None
    /\ GEMINI_API_KEY = None
    /\ weekday = None /\ mode = None /\ data = None /\ topic = None
    /\ title = None /\ content = None
    /\ hist = NotCalled /\ response = Unbound /\ posted = NotCalled
    /\ exc = None /\ calls = <<>> /\ net = <<>>

\* lines 138-150 applied to response.text
ParseStep ==
    /\ pc = "parse"
    /\ title' = Str(ParseResponse(text.val)[1])
    /\ content' = Str(ParseResponse(text.val)[2])
    /\ pc' = "parsed"
    /\ UNCHANGED <<config, weekday, mode, data, topic, hist, text, response,
                   posted, exc, calls, net>>

NextParse == ParseStep

SpecParse == InitParse /\ [][NextParse]_vars

-----------------------------------------------------------------------------
(* Properties                                                              *)

Called(f) == \E i \in 1..Len(calls) : calls[i] = f
Requested(op) == \E i \in 1..Len(net) : net[i].op = op
Ended == pc \in {"done", "raised"}

\* generate_blog_content has returned one of its two failure results
GenerationFailed ==
    /\ Called("generate_blog_content")
    /\ \/ ~Truthy(GEMINI_API_KEY)
       \/ (title = None /\ content = None)

\* C1: if content generation fails (the API key is missing, or the model
\* invocation raises), post_to_wordpress is not invoked in that run.
C1_NoPublishAfterFailedGeneration ==
    GenerationFailed => ~Called("post_to_wordpress")

\* the create-post request failed: requests.post raised, or the status is
\* not a success
TransportError == Requested("POST") /\ response = Unbound
BadStatus == response # Unbound /\ response.status >= 400

\* C2: post_to_wordpress never raises to its caller: whatever the outcome of
\* the create-post request it returns a boolean, and False when the request
\* raised or the status is not a success.
C2_PostNeverRaises ==
    Called("post_to_wordpress") =>
        /\ posted.tag = "return"
        /\ posted.val.kind = "bool"
        /\ (TransportError \/ BadStatus) => posted.val = Bool(FALSE)

\* C4: if the time-series query raises in MARKET mode, main ends by early
\* return: no exception escapes it, the generator is not called and no
\* publish request is made.
C4_HistoryFailureReturns ==
    hist.tag = "raise" =>
        /\ pc = "done"
        /\ exc = None
        /\ ~Called("generate_blog_content")
        /\ ~Called("post_to_wordpress")
        /\ ~Requested("POST")

\* C5: main selects NEWS mode exactly on Sunday (6) and Monday (0) and then
\* invokes get_google_finance_news and never get_nasdaq_data; on Tuesday to
\* Saturday it selects MARKET mode and invokes get_nasdaq_data and never
\* get_google_finance_news.
C5_ModeByWeekday ==
    pc # "start" =>
        /\ weekday \in {6, 0} =>
              /\ mode = "NEWS"
              /\ ~Called("get_nasdaq_data")
              /\ pc # "news" => calls[1] = "get_google_finance_news"
        /\ weekday \in 1..5 =>
              /\ mode = "MARKET"
              /\ ~Called("get_google_finance_news")
              /\ pc # "market" => calls[1] = "get_nasdaq_data"

C5_Witness ==
    /\ pc = "done"
    /\ weekday = 0
    /\ Called("get_google_finance_news")

\* C6: in MARKET mode, when the price series is empty, get_nasdaq_data
\* returns None without raising and main returns before the generator is
\* invoked: neither the model nor the publisher is called in that run.
C6_EmptySeriesHalts ==
    (hist.tag = "return" /\ hist.val = <<>>) =>
        /\ data = None
        /\ exc = None
        /\ pc = "done"
        /\ calls = <<"get_nasdaq_data">>
        /\ ~Requested("generate_content")
        /\ ~Requested("POST")

C6_Witness ==
    /\ pc = "done"
    /\ mode = "MARKET"
    /\ hist.tag = "return"
    /\ hist.val = <<>>

\* the lines of a digest: each is a bullet
BulletLines(d) == Split(d, "\n")
IsDigest(d) ==
    /\ Len(BulletLines(d)) \in 1..5
    /\ \A i \in 1..Len(BulletLines(d)) : StartsWith(BulletLines(d)[i], <<"-", " ">>)

\* C7: in NEWS mode the scraper never raises and never returns an empty
\* string: it returns "Error fetching news.", the general-overview
\* instruction, or a digest of 1 to 5 bullet lines; and a run in NEWS mode
\* does not end without generate_blog_content having been invoked.
C7_NewsNeverEmpty ==
    Called("get_google_finance_news") =>
        /\ data.kind = "str"
        /\ data.val # <<>>
        /\ \/ data = NewsErrorText
           \/ data = NewsOverviewText
           \/ IsDigest(data.val)
        /\ calls = <<"get_google_finance_news">> => (exc = None /\ pc \in {"check_data", "generate"})
        /\ Ended => Called("generate_blog_content")

C7_Witness ==
    /\ pc = "done"
    /\ mode = "NEWS"
    /\ Len(BulletLines(data.val)) = 5
    /\ IsDigest(data.val)
    /\ Called("generate_blog_content")

\* C8: if the CMS base URL, the username or the application password is
\* missing, post_to_wordpress returns False and issues no HTTP request,
\* whatever title and body it is given.
C8_MissingCredentialsNoRequest ==
    (/\ Called("post_to_wordpress")
     /\ \/ WP_URL \in {None, Str(<<>>)}
        \/ WP_USERNAME \in {None, Str(<<>>)}
        \/ WP_APP_PASSWORD \in {None, Str(<<>>)}) =>
        /\ posted = Return(Bool(FALSE))
        /\ ~Requested("POST")

C8_Witness ==
    /\ Called("post_to_wordpress")
    /\ WP_URL = Str(<<"https://blog.example">>)
    /\ WP_USERNAME = Str(<<"admin">>)
    /\ WP_APP_PASSWORD = None
    /\ text # None
    /\ posted = Return(Bool(FALSE))

\* C10: the stages of a run occur downstream and at most once each: one data
\* provider, then generate_blog_content at most once and only after the
\* provider returned non-empty data, then post_to_wordpress at most once and
\* only after generate_blog_content returned; a run that has ended has
\* invoked exactly one provider.
Providers == {"get_google_finance_news", "get_nasdaq_data"}
C10_StagesDownstreamOnce ==
    /\ Len(calls) <= 3
    /\ Len(calls) >= 1 => calls[1] \in Providers
    /\ Len(calls) >= 2 => (calls[2] = "generate_blog_content" /\ Truthy(data))
    /\ Len(calls) >= 3 => (calls[3] = "post_to_wordpress" /\ pc \in {"done", "raised"})
    /\ Ended => Len(calls) >= 1
    /\ pc \in {"start", "news", "market"} => calls = <<>>
    /\ pc \in {"check_data", "generate"} => Len(calls) = 1
    /\ pc = "publish" => Len(calls) = 2

C10_Witness ==
    /\ pc = "done"
    /\ calls = <<"get_nasdaq_data", "generate_blog_content", "post_to_wordpress">>
    /\ posted = Return(Bool(TRUE))

-----------------------------------------------------------------------------
(* Properties of the parser, checked under SpecParse                       *)

TextLines == Split(text.val, "\n")

\* the response has the shape 'Title: T' / 'Content: B1' / B2 .. Bn
TitleThenContent ==
    /\ Len(TextLines) >= 2
    /\ StartsWith(TextLines[1], <<"Title", ":">>)
    /\ StartsWith(TextLines[2], <<"Content", ":">>)

\* C3: for a response whose lines are 'Title: T', 'Content: B1', B2 .. Bn
\* the parser returns the title T, trimmed, and the body B1 joined by
\* newlines with B2 .. Bn.
C3_ContentLineIsBody ==
    (pc = "parsed" /\ TitleThenContent) =>
        /\ title = Str(Strip(SubSeq(TextLines[1], 3, Len(TextLines[1]))))
        /\ content = Str(Join(<<Strip(SubSeq(TextLines[2], 3, Len(TextLines[2])))>>
                              \o SubSeq(TextLines, 3, Len(TextLines)), "\n"))

\* no line of the response, once trimmed, begins with a marker
MarkerWords == {"Title", "Jemok", "Content", "Naeyong"}
BeginsWithMarker(line) ==
    LET l == Strip(line) IN Len(l) >= 2 /\ l[1] \in MarkerWords /\ l[2] = ":"
NoMarkers == \A i \in 1..Len(TextLines) : ~BeginsWithMarker(TextLines[i])

\* C9: for a response in which no line, after trimming, starts with a title
\* marker or a content marker, the parser returns the title "Market Update"
\* and a body equal to the whole response.
C9_NoMarkersWholeResponse ==
    (pc = "parsed" /\ NoMarkers) =>
        /\ title = Str(<<"Market Update">>)
        /\ content = text

C9_Witness ==
    /\ pc = "parsed"
    /\ NoMarkers
    /\ Len(TextLines) = 3
    /\ \E i \in 1..3 : TextLines[i] = <<"Foo", ":", " ", "Title", ":">>
    /\ content = text

====
